---- MODULE Spec2Model ----
(***************************************************************************)
(* A model of the stile-css core pipeline: the character driven parser     *)
(* (src/core/modules/parser/delimiters.ts), the mutable block view and the *)
(* tree transformer (src/unnamed/part_000), and the renderer               *)
(* (src/core/modules/renderer/index.ts, block.ts).                         *)
(*                                                                         *)
(* A string is a sequence of one-character strings, so that trim,          *)
(* startsWith, includes, replace and join are computed on its characters.  *)
(* The blocks of a tree live in an arena (`blocks`), a block's children,   *)
(* the parser's stack and the tree's roots are indexes into it: this keeps *)
(* the sharing of the JavaScript object references.                        *)
(***************************************************************************)
EXTENDS Integers, Sequences, FiniteSets, TLC

VARIABLES
  source,   \* the text handed to the parser (the input plugins have rewritten it)
  input,    \* what is left of it
  free,     \* how many further characters may follow the given text
  pc,       \* "input", "parse", "transform", "render", "output", "done" or "error"
  state,    \* CssPipeline.ParserState
  blocks,   \* the arena of CssPipeline.Block objects
  tree,     \* CssPipeline.AbstractTree: the root blocks (indexes into blocks)
  error,    \* the error thrown, or NoError
  walk,     \* transformTree: the blocks still to visit, the current one first
  ops,      \* view operations the handlers have issued so far
  ret,      \* what the last view operation returned
  rstate,   \* CssPipeline.RenderState, with the log of the renderer's calls
  css,      \* the rendered string, then the output of the output plugins
  plugins,  \* the plugins the pipeline was made with
  trace     \* the log of the pipeline: the handlers called and the stages passed

vars ==
  <<source, input, free, pc, state, blocks, tree, error, walk, ops, ret, rstate, css,
    plugins, trace>>

-----------------------------------------------------------------------------
(* Bounds *)

\* characters that may follow a prefix, chosen freely
MaxFree == 3
\* view operations the transform handlers issue during one transformation
MaxOps == 2
\* blocks of a tree handed to the renderer directly
MaxBlocks == 3
\* plugins a pipeline is made with
MaxPlugins == 3

-----------------------------------------------------------------------------
(* Strings *)

Range(s) == {s[i] : i \in 1..Len(s)}

\* String.prototype.trim strips white space and line terminators
IsSpace(c) == c \in {" ", "\n", "\t"}

RECURSIVE trimStart(_)
trimStart(s) == IF s # <<>> /\ IsSpace(Head(s)) THEN trimStart(Tail(s)) ELSE s

RECURSIVE trimEnd(_)
trimEnd(s) ==
  IF s # <<>> /\ IsSpace(s[Len(s)]) THEN trimEnd(SubSeq(s, 1, Len(s) - 1)) ELSE s

trim(s) == trimEnd(trimStart(s))

startsWith(s, p) == Len(p) <= Len(s) /\ SubSeq(s, 1, Len(p)) = p

includes(s, p) ==
  \E i \in 1..(Len(s) - Len(p) + 1) : SubSeq(s, i, i + Len(p) - 1) = p

RECURSIVE join(_, _)
join(list, sep) ==
  IF list = <<>> THEN <<>>
  ELSE IF Len(list) = 1 THEN list[1]
  ELSE list[1] \o sep \o join(Tail(list), sep)

RECURSIVE flatten(_)
flatten(lists) == IF lists = <<>> THEN <<>> ELSE Head(lists) \o flatten(Tail(lists))

-----------------------------------------------------------------------------
(* Parser state *)

\* lines: the start lines a transformation error was wrapped with
NoError == [name |-> "", message |-> "", line |-> 0, column |-> 0, lines |-> <<>>]

InitialState ==
  [ buffer |-> <<>>,
    stack |-> <<>>,
    selectorStack |-> <<>>,
    tree |-> <<>>,
    isStringLiteral |-> FALSE,
    isAtRule |-> FALSE,
    isNestedSelector |-> FALSE,
    isCustomProperty |-> FALSE,
    currentParenthesisLevel |-> 0,
    currentPropertyName |-> <<>>,
    currentLine |-> 1,
    currentColumn |-> 0 ]

\* new ParsingError(message, state): the handler ends, the state is left as it is
ParsingError(message, st, bl) ==
  [ state |-> st, blocks |-> bl,
    error |-> [name |-> "ParsingError", message |-> message,
               line |-> st.currentLine, column |-> st.currentColumn, lines |-> <<>>] ]

Returns(st, bl) == [state |-> st, blocks |-> bl, error |-> NoError]

\* CssPipeline.RenderState; calls and visits log the calls of renderBlock and of
\* renderBlockContent
NoRenderState == [output |-> <<>>, error |-> NoError, calls |-> <<>>, visits |-> <<>>]

-----------------------------------------------------------------------------
(* The delimiter handlers (parser/delimiters.ts) *)

NewBlock(selectors, line, column) ==
  [ selectors |-> selectors,
    properties |-> <<>>,
    children |-> <<>>,
    metadata |-> [start |-> [line |-> line, column |-> column], end |-> <<>>] ]

\* (mutant) the check of an at-rule mixed with other selectors is left out
handleOpeningBrace_unchecked(st, bl) ==
  LET selector == trim(st.buffer)
      block == NewBlock(st.selectorStack \o <<selector>>, st.currentLine, st.currentColumn)
      id == Len(bl) + 1
  IN
  IF Len(selector) = 0
  THEN ParsingError("Unexpected opening brace", st, bl)
  ELSE
    LET parent == st.stack[Len(st.stack)]
        bl1 == IF Len(st.stack) > 0
               THEN [Append(bl, block) EXCEPT ![parent].children = Append(@, id)]
               ELSE Append(bl, block)
        tree1 == IF Len(st.stack) > 0 THEN st.tree ELSE Append(st.tree, id)
    IN Returns([st EXCEPT !.tree = tree1,
                          !.stack = Append(@, id),
                          !.selectorStack = <<>>,
                          !.isNestedSelector = FALSE,
                          !.buffer = <<>>], bl1)

\* (mutant) every new block is made a root block
handleOpeningBrace_toRoot(st, bl) ==
  LET selector == trim(st.buffer)
      block == NewBlock(st.selectorStack \o <<selector>>, st.currentLine, st.currentColumn)
      id == Len(bl) + 1
  IN
  IF Len(selector) = 0
  THEN ParsingError("Unexpected opening brace", st, bl)
  ELSE IF /\ Len(block.selectors) > 1
          /\ \E i \in 1..Len(block.selectors) : startsWith(block.selectors[i], <<"@">>)
  THEN ParsingError("At-rule mixed with other selectors", st, bl)
  ELSE Returns([st EXCEPT !.tree = Append(st.tree, id),
                          !.stack = Append(@, id),
                          !.selectorStack = <<>>,
                          !.isNestedSelector = FALSE,
                          !.buffer = <<>>], Append(bl, block))

handleOpeningBrace(st, bl) ==
  LET selector == trim(st.buffer)
      block == NewBlock(st.selectorStack \o <<selector>>, st.currentLine, st.currentColumn)
      id == Len(bl) + 1
  IN
  IF Len(selector) = 0
  THEN ParsingError("Unexpected opening brace", st, bl)
  ELSE IF /\ Len(block.selectors) > 1
          /\ \E i \in 1..Len(block.selectors) : startsWith(block.selectors[i], <<"@">>)
  THEN ParsingError("At-rule mixed with other selectors", st, bl)
  ELSE
    LET parent == st.stack[Len(st.stack)]
        bl1 == IF Len(st.stack) > 0
               THEN [Append(bl, block) EXCEPT ![parent].children = Append(@, id)]
               ELSE Append(bl, block)
        tree1 == IF Len(st.stack) > 0 THEN st.tree ELSE Append(st.tree, id)
    IN Returns([st EXCEPT !.tree = tree1,
                          !.stack = Append(@, id),
                          !.selectorStack = <<>>,
                          !.isNestedSelector = FALSE,
                          !.buffer = <<>>], bl1)

\* (mutant) a pending declaration key does not stop the close
handleClosingBrace_ignoresKey(st, bl) ==
  IF Len(st.stack) = 0
  THEN ParsingError("Unexpected closing brace", st, bl)
  ELSE
    LET block == st.stack[Len(st.stack)]
    IN Returns([st EXCEPT !.stack = SubSeq(@, 1, Len(@) - 1), !.buffer = <<>>],
               [bl EXCEPT ![block].metadata.end =
                  <<[line |-> st.currentLine, column |-> st.currentColumn]>>])

handleClosingBrace(st, bl) ==
  IF Len(st.stack) = 0 \/ st.currentPropertyName # <<>>
  THEN ParsingError("Unexpected closing brace", st, bl)
  ELSE
    LET block == st.stack[Len(st.stack)]
    IN Returns([st EXCEPT !.stack = SubSeq(@, 1, Len(@) - 1), !.buffer = <<>>],
               [bl EXCEPT ![block].metadata.end =
                  <<[line |-> st.currentLine, column |-> st.currentColumn]>>])

handleSemicolon(st, bl) ==
  IF st.isStringLiteral
  THEN Returns([st EXCEPT !.buffer = Append(@, ";")], bl)
  ELSE
    LET value == trim(st.buffer)
    IN
    IF st.currentPropertyName = <<>> \/ value = <<>>
    THEN ParsingError("Unexpected semicolon (expected property declaration)", st, bl)
    ELSE IF Len(st.stack) = 0
    THEN ParsingError("Unexpected semicolon (outside block)", st, bl)
    ELSE
      LET currentBlock == st.stack[Len(st.stack)]
          property == [key |-> st.currentPropertyName, value |-> value]
      IN Returns([st EXCEPT !.currentPropertyName = <<>>,
                            !.isCustomProperty = FALSE,
                            !.buffer = <<>>],
                 [bl EXCEPT ![currentBlock].properties = Append(@, property)])

handleColon(st, bl) ==
  IF st.isAtRule \/ st.isStringLiteral \/ st.isNestedSelector \/ Len(st.stack) = 0
  THEN Returns([st EXCEPT !.buffer = Append(@, ":")], bl)
  ELSE IF st.currentPropertyName # <<>> /\ ~st.isCustomProperty
  THEN ParsingError("Unexpected colon (expected property value)", st, bl)
  ELSE
    LET name == trim(st.buffer)
    IN Returns([st EXCEPT !.currentPropertyName = name,
                          !.isCustomProperty = startsWith(name, <<"!">>),
                          !.buffer = <<>>], bl)

handleComma(st, bl) ==
  IF st.isStringLiteral \/ st.currentPropertyName # <<>> \/ st.currentParenthesisLevel > 0
  THEN Returns([st EXCEPT !.buffer = Append(@, ",")], bl)
  ELSE IF ~st.isCustomProperty /\ st.currentParenthesisLevel = 0
  THEN
    LET selector == trim(st.buffer)
    IN IF selector = <<>>
       THEN ParsingError("Unexpected comma (expected selector)", st, bl)
       ELSE Returns([st EXCEPT !.selectorStack = Append(@, selector), !.buffer = <<>>], bl)
  ELSE Returns(st, bl)

handleAmpersand(st, bl) ==
  Returns([st EXCEPT !.buffer = Append(@, "&"),
                     !.isNestedSelector =
                        IF ~st.isCustomProperty /\ ~st.isStringLiteral THEN TRUE ELSE @], bl)

handleAtSign(st, bl) ==
  Returns([st EXCEPT !.buffer = Append(@, "@"),
                     !.isAtRule = IF ~st.isCustomProperty THEN TRUE ELSE @], bl)

\* (mutant) a double quote always ends the literal it is met in
handleDoubleQuote_noEscape(st, bl) ==
  Returns([st EXCEPT !.buffer = Append(@, "\""),
                     !.isStringLiteral =
                        IF st.isCustomProperty THEN @ ELSE ~st.isStringLiteral], bl)

handleDoubleQuote(st, bl) ==
  LET buffer == Append(st.buffer, "\"")
  IN Returns([st EXCEPT !.buffer = buffer,
                        !.isStringLiteral =
                           IF st.isCustomProperty THEN @
                           ELSE IF st.isStringLiteral
                                THEN Len(buffer) >= 2 /\ buffer[Len(buffer) - 1] = "\\"
                                ELSE TRUE], bl)

handleOpeningParenthesis(st, bl) ==
  Returns([st EXCEPT !.buffer = Append(@, "("),
                     !.currentParenthesisLevel =
                        IF ~st.isCustomProperty /\ ~st.isStringLiteral THEN @ + 1 ELSE @], bl)

handleClosingParenthesis(st, bl) ==
  Returns([st EXCEPT !.buffer = Append(@, ")"),
                     !.currentParenthesisLevel =
                        IF ~st.isCustomProperty /\ ~st.isStringLiteral THEN @ - 1 ELSE @], bl)

-----------------------------------------------------------------------------
(* The scan loop: one character of the source at a time *)

SpecialChars == {"{", "}", ";", ":", ",", "&", "@", "\"", "(", ")"}

\* the position counters, advanced before the character is dispatched
advance(st, c) ==
  IF c = "\n"
  THEN [st EXCEPT !.currentLine = @ + 1, !.currentColumn = 0]
  ELSE [st EXCEPT !.currentColumn = @ + 1]

\* a character that is not special is appended to the buffer
appendCharacter(st, bl, c) == Returns([st EXCEPT !.buffer = Append(@, c)], bl)

\* the end of the source: a block still open is an error of its own
endOfInput(st, bl) ==
  IF Len(st.stack) > 0
  THEN ParsingError("Unexpected end of input (missing closing brace)", st, bl)
  ELSE Returns(st, bl)

\* the scan loop on one character: the handler of a special character, the buffer
\* for any other
dispatch(st, bl, c) ==
  CASE c = "{" -> handleOpeningBrace(advance(st, c), bl)
    [] c = "}" -> handleClosingBrace(advance(st, c), bl)
    [] c = ";" -> handleSemicolon(advance(st, c), bl)
    [] c = ":" -> handleColon(advance(st, c), bl)
    [] c = "," -> handleComma(advance(st, c), bl)
    [] c = "&" -> handleAmpersand(advance(st, c), bl)
    [] c = "@" -> handleAtSign(advance(st, c), bl)
    [] c = "\"" -> handleDoubleQuote(advance(st, c), bl)
    [] c = "(" -> handleOpeningParenthesis(advance(st, c), bl)
    [] c = ")" -> handleClosingParenthesis(advance(st, c), bl)
    [] OTHER -> appendCharacter(advance(st, c), bl, c)

\* the scan of a whole text from the state r: it ends at the first error
RECURSIVE scan(_, _)
scan(r, text) ==
  IF r.error # NoError THEN r
  ELSE IF text = <<>> THEN endOfInput(r.state, r.blocks)
  ELSE scan(dispatch(r.state, r.blocks, Head(text)), Tail(text))

\* the parse of a whole text: the state it ends in, the blocks built, the error
createTreeFromString(text) == scan(Returns(InitialState, <<>>), text)

-----------------------------------------------------------------------------
(* The texts the parser is run on *)

\* .a{&:hover{color:red;}}
SrcHover ==
  <<".","a","{","&",":","h","o","v","e","r","{","c","o","l","o","r",":","r","e","d",";","}","}">>

\* .a{.b{color:red;}}
SrcDescendant ==
  <<".","a","{",".","b","{","c","o","l","o","r",":","r","e","d",";","}","}">>

\* @media screen (min-width:600px){ @media (prefers-color-scheme:dark){ .a{color:#000;} } }
SrcColorSchemeMerge ==
  <<"@","m","e","d","i","a"," ","s","c","r","e","e","n"," ","(","m","i","n","-","w","i","d","t","h",":","6","0","0","p","x",")","{"," ","@","m","e","d","i","a"," ","(","p","r","e","f","e","r","s","-","c","o","l","o","r","-","s","c","h","e","m","e",":","d","a","r","k",")","{"," ",".","a","{","c","o","l","o","r",":","#","0","0","0",";","}"," ","}"," ","}">>

\* .a{!x: a:b;}
SrcCustomProperty ==
  <<".","a","{","!","x",":"," ","a",":","b",";","}">>

\* a{b:1;
SrcMissingClose ==
  <<"a","{","b",":","1",";">>

\* a}
SrcUnexpectedClose ==
  <<"a","}">>

\* a{b:1;}
SrcFlat ==
  <<"a","{","b",":","1",";","}">>

\* a{b:1;} a{c:2;}
SrcFlatTwice ==
  <<"a","{","b",":","1",";","}"," ","a","{","c",":","2",";","}">>

\* .a{background:rgb(1,2,3);}
SrcRgb ==
  <<".","a","{","b","a","c","k","g","r","o","u","n","d",":","r","g","b","(","1",",","2",",","3",")",";","}">>

\* .a{content:"a\"b";}
SrcEscapedQuote ==
  <<".","a","{","c","o","n","t","e","n","t",":","\"","a","\\","\"","b","\"",";","}">>

\* a, b{\nc:d;}
SrcSelectorList ==
  <<"a",","," ","b","{","\n","c",":","d",";","}">>

\* a$${&b{c:d;}}
SrcDollar ==
  <<"a","$","$","{","&","b","{","c",":","d",";","}","}">>

\* @media screen{@media x-color-scheme (a){@media (b-color-scheme){}}}
SrcNestedColorScheme ==
  <<"@","m","e","d","i","a"," ","s","c","r","e","e","n","{","@","m","e","d","i","a"," ","x","-","c","o","l","o","r","-","s","c","h","e","m","e"," ","(","a",")","{","@","m","e","d","i","a"," ","(","b","-","c","o","l","o","r","-","s","c","h","e","m","e",")","{","}","}","}">>

\* a{b:1;c:2;b:3;}
SrcRepeatedKey ==
  <<"a","{","b",":","1",";","c",":","2",";","b",":","3",";","}">>

\* a{b{}c{}}d{}
SrcFamily ==
  <<"a","{","b","{","}","c","{","}","}","d","{","}">>

\* a{\nb{c:d;}}
SrcNestedLines ==
  <<"a","{","\n","b","{","c",":","d",";","}","}">>

\* a,b(c){&d{e:"@";}}
SrcEverything ==
  <<"a",",","b","(","c",")","{","&","d","{","e",":","\"","@","\"",";","}","}">>

\* a{b:1;} @x{k:v;}
SrcFlatAtRule ==
  <<"a","{","b",":","1",";","}"," ","@","x","{","k",":","v",";","}">>

\* @media screen{.a{color:red;}}
SrcMediaScreen ==
  <<"@","m","e","d","i","a"," ","s","c","r","e","e","n","{",".","a","{","c","o","l","o","r",":","r","e","d",";","}","}">>

\* a{!x:@b{c;}}
SrcAtRuleInValue ==
  <<"a","{","!","x",":","@","b","{","c",";","}","}">>

\* a{b:1}
SrcPendingClose ==
  <<"a","{","b",":","1","}">>

Sources ==
  {SrcPendingClose,
   SrcHover,
   SrcDescendant,
   SrcColorSchemeMerge,
   SrcCustomProperty,
   SrcMissingClose,
   SrcUnexpectedClose,
   SrcFlat,
   SrcFlatTwice,
   SrcRgb,
   SrcEscapedQuote,
   SrcSelectorList,
   SrcDollar,
   SrcNestedColorScheme,
   SrcRepeatedKey,
   SrcFamily,
   SrcNestedLines,
   SrcFlatAtRule,
   SrcMediaScreen,
   SrcAtRuleInValue}

\* 
PreNone ==
  <<>>

\* a{
PreBlock ==
  <<"a","{">>

\* a{b:
PreValue ==
  <<"a","{","b",":">>

\* a{!x:
PreCustomValue ==
  <<"a","{","!","x",":">>

\* a{b:"
PreString ==
  <<"a","{","b",":","\"">>

\* a,
PreSelectors ==
  <<"a",",">>

\* a{b{}
PreChild ==
  <<"a","{","b","{","}">>

Prefixes ==
  {PreNone, PreBlock, PreValue, PreCustomValue, PreString, PreSelectors, SrcEscapedQuote,
   PreChild}

\* the characters that may follow a prefix
FreeChars == SpecialChars \cup {"a", " ", "!", "\\"}

PlainChars ==
  (UNION {Range(s) : s \in Sources \cup Prefixes \cup {SrcEverything}} \cup FreeChars)
    \ SpecialChars

-----------------------------------------------------------------------------
(* The renderer (renderer/block.ts, renderer/index.ts) *)

ROOT == <<"r","o","o","t">>
MEDIA_SCREEN == <<"@","m","e","d","i","a"," ","s","c","r","e","e","n">>
SCREEN == <<"s","c","r","e","e","n">>
COLOR_SCHEME == <<"-","c","o","l","o","r","-","s","c","h","e","m","e">>
MEDIA == <<"@","m","e","d","i","a">>
AND == <<"a","n","d">>

RenderingError(message, rs, bl, id) ==
  [rs EXCEPT !.error = [name |-> "RenderingError", message |-> message,
                        line |-> bl[id].metadata.start.line,
                        column |-> bl[id].metadata.start.column,
                        lines |-> <<>>]]

\* block.selectors[0].startsWith(...) with no first selector: reading a property of undefined
TypeError(rs) ==
  [rs EXCEPT !.error = [name |-> "TypeError", message |-> "Cannot read properties of undefined",
                        line |-> 0, column |-> 0, lines |-> <<>>]]

IndexOf(s, c, from) ==
  IF \E i \in from..Len(s) : s[i] = c
  THEN CHOOSE i \in from..Len(s) : s[i] = c /\ \A j \in from..(i - 1) : s[j] # c
  ELSE 0

\* prelude.replace(/^[^(]+(\([^)]+\))[^)]*$/, '$1'): the one parenthesised group
\* when the whole prelude matches, the prelude as it is when it does not
extractCondition(prelude) ==
  LET open == IndexOf(prelude, "(", 1)
      close == IF open = 0 THEN 0 ELSE IndexOf(prelude, ")", open + 1)
      matches == /\ open >= 2
                 /\ close >= open + 2
                 /\ \A j \in (close + 1)..Len(prelude) : prelude[j] # ")"
  IN IF matches THEN SubSeq(prelude, open, close) ELSE prelude

\* the replacement text of String.prototype.replace, in which $$, $&, $` and $'
\* stand for "$", the match, the text before it and the text after it
RECURSIVE substitution(_, _, _, _)
substitution(replacement, matched, before, after) ==
  IF replacement = <<>> THEN <<>>
  ELSE IF Head(replacement) = "$" /\ Len(replacement) >= 2
          /\ replacement[2] \in {"$", "&", "`", "'"}
  THEN (CASE replacement[2] = "$" -> <<"$">>
          [] replacement[2] = "&" -> matched
          [] replacement[2] = "`" -> before
          [] replacement[2] = "'" -> after)
       \o substitution(SubSeq(replacement, 3, Len(replacement)), matched, before, after)
  ELSE <<Head(replacement)>> \o substitution(Tail(replacement), matched, before, after)

\* selector.replace(/&/g, parent), from position i on
RECURSIVE replaceAmpersands(_, _, _)
replaceAmpersands(selector, parent, i) ==
  IF i > Len(selector) THEN <<>>
  ELSE (IF selector[i] = "&"
        THEN substitution(parent, <<"&">>, SubSeq(selector, 1, i - 1),
                          SubSeq(selector, i + 1, Len(selector)))
        ELSE <<selector[i]>>)
       \o replaceAmpersands(selector, parent, i + 1)

renderSelector(selector, parent) ==
  IF includes(selector, <<"&">>)
  THEN replaceAmpersands(selector, parent, 1)
  ELSE parent \o <<" ">> \o selector

renderProperties(properties) ==
  join([i \in 1..Len(properties) |->
          properties[i].key \o <<":">> \o properties[i].value], <<";">>)

\* block.selectors.flatMap(selector => parents.length === 0 ? [selector] : parents.map(...))
combineSelectors(selectors, parents) ==
  flatten([i \in 1..Len(selectors) |->
             IF Len(parents) = 0 THEN <<selectors[i]>>
             ELSE [j \in 1..Len(parents) |-> renderSelector(selectors[i], parents[j])]])

HasContext(output, context) == \E i \in 1..Len(output) : output[i].context = context

\* state.output[context].push(fragment)
pushFragment(output, context, fragment) ==
  [i \in 1..Len(output) |->
     IF output[i].context = context
     THEN [output[i] EXCEPT !.blocks = Append(@, fragment)]
     ELSE output[i]]

RECURSIVE renderBlock(_, _, _, _, _)
RECURSIVE renderBlockContent(_, _, _, _, _)
RECURSIVE renderChildren(_, _, _, _, _)

renderChildren(rs, bl, children, context, selectors) ==
  IF children = <<>> \/ rs.error # NoError THEN rs
  ELSE renderChildren(renderBlock(rs, bl, Head(children), context, selectors),
                      bl, Tail(children), context, selectors)

renderBlockContent(rs, bl, context, selectors, id) ==
  LET block == bl[id]
      rs1 == [rs EXCEPT !.visits = Append(@, [block |-> id, context |-> context,
                                               selectors |-> selectors])]
      rs2 == IF HasContext(rs1.output, context) THEN rs1
             ELSE [rs1 EXCEPT !.output = Append(@, [context |-> context, blocks |-> <<>>])]
      rs3 == IF Len(block.properties) > 0
             THEN [rs2 EXCEPT !.output =
                     pushFragment(@, context,
                       join(selectors, <<",">>) \o <<"{">>
                         \o renderProperties(block.properties) \o <<"}">>)]
             ELSE rs2
  IN renderChildren(rs3, bl, block.children, context, selectors)

renderBlock(rs, bl, id, context, parents) ==
  LET block == bl[id]
      rs1 == [rs EXCEPT !.calls = Append(@, [block |-> id, context |-> context,
                                             parents |-> parents])]
  IN
  IF block.selectors = <<>> THEN TypeError(rs1)
  ELSE
  LET first == block.selectors[1]
  IN
  IF startsWith(first, MEDIA_SCREEN)
  THEN IF includes(context, SCREEN)
       THEN RenderingError("Nested media queries are not supported", rs1, bl, id)
       ELSE IF includes(context, COLOR_SCHEME)
       THEN RenderingError(
              "Responsive media queries cannot be nested inside color scheme at-rules",
              rs1, bl, id)
       ELSE renderBlockContent(rs1, bl, first, parents, id)
  ELSE IF startsWith(first, MEDIA) /\ includes(first, COLOR_SCHEME)
  THEN IF includes(context, COLOR_SCHEME)
       THEN RenderingError("Nested color scheme at-rules are not supported", rs1, bl, id)
       ELSE LET targetContext ==
                  IF ~startsWith(context, MEDIA_SCREEN) THEN first
                  ELSE context \o AND \o extractCondition(first)
            IN renderBlockContent(rs1, bl, targetContext, parents, id)
  ELSE IF startsWith(first, <<"@">>)
  THEN IF startsWith(context, <<"@">>)
       THEN RenderingError("Nested at-rules are not supported", rs1, bl, id)
       ELSE renderBlockContent(rs1, bl, first, <<>>, id)
  ELSE renderBlockContent(rs1, bl, context, combineSelectors(block.selectors, parents), id)

\* (mutant) every group is wrapped, root too, and a group without a fragment is kept
assemble_wrapsAll(output) ==
  flatten([i \in 1..Len(output) |->
             output[i].context \o <<"{">> \o flatten(output[i].blocks) \o <<"}">>])

\* the groups of the output, in insertion order, joined
assemble(output) ==
  flatten([i \in 1..Len(output) |->
             IF Len(output[i].blocks) = 0 THEN <<>>
             ELSE IF output[i].context = ROOT THEN flatten(output[i].blocks)
             ELSE output[i].context \o <<"{">> \o flatten(output[i].blocks) \o <<"}">>])

\* the render state after the loop over the root blocks, and the string returned
renderTreeToString(bl, roots) ==
  LET rs == renderChildren(NoRenderState, bl, roots, ROOT, <<>>)
  IN [rstate |-> rs, css |-> IF rs.error # NoError THEN <<>> ELSE assemble(rs.output)]

-----------------------------------------------------------------------------
(* The mutable block view (makeMutableBlock) *)

Undefined == [defined |-> FALSE]
Value(v) == [defined |-> TRUE, value |-> v]

hasChildren(bl, id) == Len(bl[id].children) > 0

getSelectors(bl, id) == bl[id].selectors

setSelectors(bl, id, newSelectors) == [bl EXCEPT ![id].selectors = newSelectors]

hasProperty(bl, id, key) ==
  \E i \in 1..Len(bl[id].properties) : bl[id].properties[i].key = key

FirstWithKey(properties, key) ==
  CHOOSE i \in 1..Len(properties) :
    /\ properties[i].key = key
    /\ \A j \in 1..(i - 1) : properties[j].key # key

getProperty(bl, id, key) ==
  IF hasProperty(bl, id, key)
  THEN Value(bl[id].properties[FirstWithKey(bl[id].properties, key)].value)
  ELSE Undefined

getProperties(bl, id) == bl[id].properties

setProperty(bl, id, key, value) ==
  IF hasProperty(bl, id, key)
  THEN [bl EXCEPT ![id].properties[FirstWithKey(bl[id].properties, key)].value = value]
  ELSE [bl EXCEPT ![id].properties = Append(@, [key |-> key, value |-> value])]

\* (mutant) only the first entry with the key is removed
removeProperty_firstOnly(bl, id, key) ==
  IF hasProperty(bl, id, key)
  THEN LET i == FirstWithKey(bl[id].properties, key)
       IN [bl EXCEPT ![id].properties =
             SubSeq(@, 1, i - 1) \o SubSeq(@, i + 1, Len(@))]
  ELSE bl

removeProperty(bl, id, key) ==
  [bl EXCEPT ![id].properties = SelectSeq(@, LAMBDA property : property.key # key)]

-----------------------------------------------------------------------------
(* The tree transformer (transformTree) *)

\* the handlers of the transform plugins given to the pipeline
NumPlugins == 2

\* a frame per running call of transformTree: its list of blocks and the index of
\* the block its loop is at; h is the next plugin of the innermost loop; views counts
\* the calls of makeMutableBlock, invoked logs the calls of the handlers
NoWalk == [frames |-> <<>>, h |-> 1, views |-> 0, invoked |-> <<>>]

\* transformTree(list, plugins) is called: its loop starts, unless the list is empty
enterList(frames, list) ==
  IF list = <<>> THEN frames ELSE Append(frames, [list |-> list, i |-> 1])

\* the innermost loop goes on to its next block; a loop at its end returns to its caller
RECURSIVE nextBlock(_)
nextBlock(frames) ==
  IF frames = <<>> THEN <<>>
  ELSE LET top == frames[Len(frames)]
       IN IF top.i < Len(top.list)
          THEN [frames EXCEPT ![Len(frames)].i = @ + 1]
          ELSE nextBlock(SubSeq(frames, 1, Len(frames) - 1))

currentBlock(w) == w.frames[Len(w.frames)].list[w.frames[Len(w.frames)].i]

\* (mutant) the children of a block are not walked
transformNext_skipsChildren(bl, w) == [w EXCEPT !.frames = nextBlock(@), !.h = 1]

\* after the plugins have run on a block: into its children, or on to the next block
transformNext(bl, w) ==
  LET block == currentBlock(w)
  IN IF Len(bl[block].children) > 0
     THEN [w EXCEPT !.frames = Append(@, [list |-> bl[block].children, i |-> 1]), !.h = 1]
     ELSE [w EXCEPT !.frames = nextBlock(@), !.h = 1]

\* a handler fails: the catch of every running call wraps the error with the start
\* line of the block its loop is at, the innermost first
transformationError(bl, w, message) ==
  [ name |-> "Error", message |-> message, line |-> 0, column |-> 0,
    lines |-> [k \in 1..Len(w.frames) |->
                 LET frame == w.frames[Len(w.frames) + 1 - k]
                 IN bl[frame.list[frame.i]].metadata.start.line] ]

-----------------------------------------------------------------------------
(* The pipeline (core/index.ts) *)

\* a plugin: its stage, and whether its handler returns a string
Plugin(stage, returns) == [stage |-> stage, returns |-> returns]

\* (mutant) the plugins of a stage are taken last first
filter_reversed(list, stage, i) ==
  LET Positions[k \in 0..Len(list)] ==
        IF k = 0 THEN <<>>
        ELSE (IF list[k].stage = stage THEN <<k>> ELSE <<>>) \o Positions[k - 1]
  IN Positions[Len(list)]

\* plugins.filter(plugin => plugin.stage === stage): the positions kept, from i on
RECURSIVE filter(_, _, _)
filter(list, stage, i) ==
  IF i > Len(list) THEN <<>>
  ELSE (IF list[i].stage = stage THEN <<i>> ELSE <<>>) \o filter(list, stage, i + 1)

groupPluginsByStage(list) ==
  [ input |-> filter(list, "input", 1),
    transform |-> filter(list, "transform", 1),
    output |-> filter(list, "output", 1) ]

inputPlugins == groupPluginsByStage(plugins).input
transformPlugins == groupPluginsByStage(plugins).transform
outputPlugins == groupPluginsByStage(plugins).output

\* an entry of the log: a handler called with arg (an output handler with the tree
\* too) and what it returned, or a stage that has ended
Event(stage, plugin, arg, roots, string, result) ==
  [stage |-> stage, plugin |-> plugin, arg |-> arg, tree |-> roots,
   string |-> string, result |-> result]
Passed(stage) == Event(stage, 0, <<>>, <<>>, TRUE, <<>>)

EventsOf(log, stage) == {i \in 1..Len(log) : log[i].stage = stage}

\* throw new Error(message)
PluginError(message) ==
  [name |-> "Error", message |-> message, line |-> 0, column |-> 0, lines |-> <<>>]

\* the strings a handler of an input plugin, of an output plugin, returns
InputResults(text) == {text \o <<" ">>, <<"a", "{", "b", ":", "1", ";", "}">>}
OutputResults(text) == {text \o <<"/">>}

-----------------------------------------------------------------------------
(* Parsing, one action per handler *)

\* the scan loop reads character c: the next of the text, or a free one after it
Takes(c) ==
  /\ pc = "parse"
  /\ \/ /\ input # <<>>
        /\ Head(input) = c
        /\ input' = Tail(input)
        /\ free' = free
     \/ /\ input = <<>>
        /\ free > 0
        /\ c \in FreeChars
        /\ input' = input
        /\ free' = free - 1

Apply(r) ==
  /\ state' = r.state
  /\ blocks' = r.blocks
  /\ error' = r.error
  /\ pc' = IF r.error # NoError THEN "error" ELSE pc
  /\ UNCHANGED <<source, tree, walk, ops, ret, rstate, css, plugins, trace>>

HandleOpeningBrace ==
  Takes("{") /\ Apply(handleOpeningBrace(advance(state, "{"), blocks))

HandleClosingBrace ==
  Takes("}") /\ Apply(handleClosingBrace(advance(state, "}"), blocks))

HandleSemicolon ==
  Takes(";") /\ Apply(handleSemicolon(advance(state, ";"), blocks))

HandleColon ==
  Takes(":") /\ Apply(handleColon(advance(state, ":"), blocks))

HandleComma ==
  Takes(",") /\ Apply(handleComma(advance(state, ","), blocks))

HandleAmpersand ==
  Takes("&") /\ Apply(handleAmpersand(advance(state, "&"), blocks))

HandleAtSign ==
  Takes("@") /\ Apply(handleAtSign(advance(state, "@"), blocks))

HandleDoubleQuote ==
  Takes("\"") /\ Apply(handleDoubleQuote(advance(state, "\""), blocks))

HandleOpeningParenthesis ==
  Takes("(") /\ Apply(handleOpeningParenthesis(advance(state, "("), blocks))

HandleClosingParenthesis ==
  Takes(")") /\ Apply(handleClosingParenthesis(advance(state, ")"), blocks))

AppendCharacter ==
  \E c \in PlainChars :
    Takes(c) /\ Apply(appendCharacter(advance(state, c), blocks, c))

\* createTreeFromString returns state.tree, and transformTree starts on it
EndOfInput ==
  /\ pc = "parse"
  /\ input = <<>>
  /\ LET r == endOfInput(state, blocks)
     IN /\ error' = r.error
        /\ pc' = IF r.error # NoError THEN "error" ELSE "transform"
        /\ tree' = IF r.error # NoError THEN tree ELSE state.tree
        /\ walk' = IF r.error # NoError THEN walk
                   ELSE [walk EXCEPT !.frames = enterList(@, state.tree)]
        /\ trace' = IF r.error # NoError THEN trace ELSE Append(trace, Passed("parse"))
  /\ UNCHANGED <<source, input, free, state, blocks, ops, ret, rstate, css, plugins>>

Parse ==
  \/ HandleOpeningBrace
  \/ HandleClosingBrace
  \/ HandleSemicolon
  \/ HandleColon
  \/ HandleComma
  \/ HandleAmpersand
  \/ HandleAtSign
  \/ HandleDoubleQuote
  \/ HandleOpeningParenthesis
  \/ HandleClosingParenthesis
  \/ AppendCharacter
  \/ EndOfInput

\* the pipeline, made with the plugins of list, is called with text
InitPipeline(text, n, list) ==
  /\ plugins = list
  /\ trace = <<>>
  /\ source = text
  /\ input = text
  /\ free = n
  /\ pc = IF groupPluginsByStage(list).input = <<>> THEN "parse" ELSE "input"
  /\ state = InitialState
  /\ blocks = <<>>
  /\ tree = <<>>
  /\ error = NoError
  /\ walk = NoWalk
  /\ ops = 0
  /\ ret = Undefined
  /\ rstate = NoRenderState
  /\ css = <<>>

-----------------------------------------------------------------------------
(* Transforming, one action per operation of the view *)

\* what the handlers pass to the view
NewSelectorLists ==
  {<<>>, << <<"b">> >>, << <<"@","x">>, <<"a">> >>}
Keys == {<<"b">>, <<"c">>}
Values == {<<"2">>}

\* plugin.handler(mutableBlock) is called with the next plugin on the current block;
\* the view is made once, before the first plugin
Invokes ==
  /\ pc = "transform"
  /\ walk.frames # <<>>
  /\ walk.h <= Len(transformPlugins)
  /\ trace' = Append(trace, Event("transform", transformPlugins[walk.h],
                                  <<>>, <<>>, TRUE, <<>>))
  /\ LET view == IF walk.h = 1 THEN walk.views + 1 ELSE walk.views
     IN walk' = [walk EXCEPT !.h = @ + 1,
                             !.views = view,
                             !.invoked = Append(@, [block |-> currentBlock(walk),
                                                    view |-> view,
                                                    plugin |-> walk.h])]

\* the handler calls one operation of the view
Calls(name, args, bl, value) ==
  /\ Invokes
  /\ ops < MaxOps
  /\ ops' = ops + 1
  /\ blocks' = bl
  /\ ret' = [op |-> name, block |-> currentBlock(walk), args |-> args, result |-> value]
  /\ UNCHANGED <<source, input, free, pc, state, tree, error, rstate, css, plugins>>

HandlerHasChildren ==
  Calls("hasChildren", <<>>, blocks, hasChildren(blocks, currentBlock(walk)))

HandlerGetSelectors ==
  Calls("getSelectors", <<>>, blocks, getSelectors(blocks, currentBlock(walk)))

HandlerSetSelectors ==
  \E newSelectors \in NewSelectorLists :
    Calls("setSelectors", <<newSelectors>>, setSelectors(blocks, currentBlock(walk), newSelectors), Undefined)

HandlerHasProperty ==
  \E key \in Keys :
    Calls("hasProperty", <<key>>, blocks, hasProperty(blocks, currentBlock(walk), key))

HandlerGetProperty ==
  \E key \in Keys :
    Calls("getProperty", <<key>>, blocks, getProperty(blocks, currentBlock(walk), key))

HandlerGetProperties ==
  Calls("getProperties", <<>>, blocks, getProperties(blocks, currentBlock(walk)))

HandlerSetProperty ==
  \E key \in Keys, value \in Values :
    Calls("setProperty", <<key, value>>, setProperty(blocks, currentBlock(walk), key, value), Undefined)

HandlerRemoveProperty ==
  \E key \in Keys :
    Calls("removeProperty", <<key>>, removeProperty(blocks, currentBlock(walk), key), Undefined)

\* the handler returns without a call of the view
HandlerReturns ==
  /\ Invokes
  /\ UNCHANGED <<source, input, free, pc, state, blocks, tree, error, ops, ret, rstate, css,
                 plugins>>

HandlerThrows ==
  /\ Invokes
  /\ pc' = "error"
  /\ error' = transformationError(blocks, walk, "handler failed")
  /\ UNCHANGED <<source, input, free, state, blocks, tree, ops, ret, rstate, css, plugins>>

\* the loop of transformTree; renderTreeToString is next when the outermost ends
TransformNext ==
  /\ pc = "transform"
  /\ \/ /\ walk.frames # <<>>
        /\ walk.h > Len(transformPlugins)
        /\ walk' = transformNext(blocks, walk)
     \/ /\ walk.frames = <<>>
        /\ walk' = walk
  /\ pc' = IF walk'.frames = <<>> THEN "render" ELSE pc
  /\ UNCHANGED <<source, input, free, state, blocks, tree, error, ops, ret, rstate, css,
                 plugins, trace>>

Transform ==
  \/ HandlerHasChildren
  \/ HandlerGetSelectors
  \/ HandlerSetSelectors
  \/ HandlerHasProperty
  \/ HandlerGetProperty
  \/ HandlerGetProperties
  \/ HandlerSetProperty
  \/ HandlerRemoveProperty
  \/ HandlerReturns
  \/ HandlerThrows
  \/ TransformNext

-----------------------------------------------------------------------------
(* Rendering *)

Render ==
  /\ pc = "render"
  /\ LET r == renderTreeToString(blocks, tree)
     IN /\ rstate' = r.rstate
        /\ css' = r.css
        /\ error' = r.rstate.error
        /\ pc' = IF r.rstate.error # NoError THEN "error"
                 ELSE IF outputPlugins = <<>> THEN "done" ELSE "output"
        /\ trace' = IF r.rstate.error # NoError THEN trace
                    ELSE Append(trace, Passed("render"))
  /\ UNCHANGED <<source, input, free, state, blocks, tree, walk, ops, ret, plugins>>

-----------------------------------------------------------------------------
(* The input and the output plugins *)

\* the loop over the input plugins: the next handler is called with the text
InputStage ==
  /\ pc = "input"
  /\ LET done == Cardinality(EventsOf(trace, "input"))
         plugin == inputPlugins[done + 1]
     IN IF plugins[plugin].returns = "string"
        THEN \E result \in InputResults(source) :
               /\ source' = result
               /\ input' = result
               /\ trace' = Append(trace, Event("input", plugin, source, <<>>, TRUE, result))
               /\ pc' = IF done + 1 = Len(inputPlugins) THEN "parse" ELSE "input"
               /\ error' = error
        ELSE /\ trace' = Append(trace, Event("input", plugin, source, <<>>, FALSE, <<>>))
             /\ pc' = "error"
             /\ error' = PluginError("Input plugins must return a string")
             /\ UNCHANGED <<source, input>>
  /\ UNCHANGED <<free, state, blocks, tree, walk, ops, ret, rstate, css, plugins>>

\* the loop over the output plugins: the next handler is called with the output
\* and the tree
OutputStage ==
  /\ pc = "output"
  /\ LET done == Cardinality(EventsOf(trace, "output"))
         plugin == outputPlugins[done + 1]
     IN IF plugins[plugin].returns = "string"
        THEN \E result \in OutputResults(css) :
               /\ css' = result
               /\ trace' = Append(trace, Event("output", plugin, css, tree, TRUE, result))
               /\ pc' = IF done + 1 = Len(outputPlugins) THEN "done" ELSE "output"
               /\ error' = error
        ELSE /\ trace' = Append(trace, Event("output", plugin, css, tree, FALSE, <<>>))
             /\ pc' = "error"
             /\ error' = PluginError("Output plugins must return a string")
             /\ css' = css
  /\ UNCHANGED <<source, input, free, state, blocks, tree, walk, ops, ret, rstate, plugins>>

-----------------------------------------------------------------------------
(* The trees handed to the renderer directly *)

\* the selector lists of a block
SelectorLists ==
  { << <<"&","b">>, <<"c">> >>,
    << <<"d","$","$">> >>,
    << MEDIA_SCREEN >>,
    << <<"@","m","e","d","i","a"," ","(","x","-","c","o","l","o","r","-","s","c","h","e","m","e",")">> >>,
    << <<"@","m","e","d","i","a"," ","(","x","-","c","o","l","o","r","-","s","c","h","e","m","e",")"," ","a","n","d"," ","(","y",")">> >>,
    << <<"@","m","e","d","i","a"," ","x","-","c","o","l","o","r","-","s","c","h","e","m","e"," ","(","y",")">> >>,
    << <<"@","l","a","y","e","r"," ","z">> >> }

PropertyLists == {<<>>, <<[key |-> <<"k">>, value |-> <<"v">>]>>}

\* parent[i] of block i, 0 for a root block; the blocks are numbered in pre-order
RECURSIVE IsAncestorOrSelf(_, _, _)
IsAncestorOrSelf(parent, a, i) ==
  i # 0 /\ (a = i \/ IsAncestorOrSelf(parent, a, parent[i]))

Forests(n) ==
  {parent \in [1..n -> 0..(n - 1)] :
     \A i \in 1..n :
       \/ parent[i] = 0
       \/ i > 1 /\ IsAncestorOrSelf(parent, parent[i], i - 1)}

ChildrenOf(parent, p) ==
  LET ids == {i \in DOMAIN parent : parent[i] = p}
      Sorted[k \in 0..Cardinality(ids)] ==
        IF k = 0 THEN <<>>
        ELSE Append(Sorted[k - 1],
                    CHOOSE i \in ids :
                      Cardinality({j \in ids : j < i}) = k - 1)
  IN Sorted[Cardinality(ids)]

TreeOf(parent, selectors, properties) ==
  [i \in DOMAIN parent |->
     [ selectors |-> selectors[i],
       properties |-> properties[i],
       children |-> ChildrenOf(parent, i),
       metadata |-> [start |-> [line |-> i, column |-> 1], end |-> <<>>] ]]

InitRender ==
  \E n \in 1..MaxBlocks :
    \E parent \in Forests(n), selectors \in [1..n -> SelectorLists],
       properties \in [1..n -> PropertyLists] :
      /\ blocks = TreeOf(parent, selectors, properties)
      /\ tree = ChildrenOf(parent, 0)
      /\ pc = "render"
      /\ source = <<>>
      /\ input = <<>>
      /\ free = 0
      /\ state = InitialState
      /\ error = NoError
      /\ walk = NoWalk
      /\ ops = 0
      /\ ret = Undefined
      /\ rstate = NoRenderState
      /\ css = <<>>
      /\ plugins = <<>>
      /\ trace = <<>>

-----------------------------------------------------------------------------
(* Specifications *)

\* the pipeline on each of the texts: parse, transform, render
TransformOnly == [i \in 1..NumPlugins |-> Plugin("transform", "nothing")]

Init == \E text \in Sources : InitPipeline(text, 0, TransformOnly)

Next == Parse \/ Transform \/ Render

Spec == Init /\ [][Next]_vars

\* the parser alone, on every text that is a prefix followed by free characters
InitParser == \E text \in Prefixes : InitPipeline(text, MaxFree, <<>>)

SpecParser == InitParser /\ [][Parse]_vars

\* the renderer alone, on every tree within the bounds
SpecRender == InitRender /\ [][Render]_vars

\* the pipeline made with every list of plugins within the bounds
PluginKinds ==
  { Plugin("input", "string"), Plugin("input", "other"),
    Plugin("transform", "nothing"),
    Plugin("output", "string"), Plugin("output", "other") }

PluginLists == UNION {[1..n -> PluginKinds] : n \in 0..MaxPlugins}

PipelineSources == {SrcEverything, SrcUnexpectedClose}

InitPlugins ==
  \E text \in PipelineSources, list \in PluginLists : InitPipeline(text, 0, list)

NextPlugins == InputStage \/ Parse \/ Transform \/ Render \/ OutputStage

SpecPlugins == InitPlugins /\ [][NextPlugins]_vars

-----------------------------------------------------------------------------
(* What the claims speak of *)

\* the renderer has run (to its end or to an error)
Rendered == rstate.calls # <<>>

\* the pipeline has ended, and no handler of a transform plugin took part
Finished == pc \in {"done", "error"}
Untransformed == ops = 0 /\ error.name # "Error"

IsAtRuleBlock(b) == b.selectors # <<>> /\ startsWith(b.selectors[1], <<"@">>)
IsOrdinary(b) == b.selectors # <<>> /\ ~startsWith(b.selectors[1], <<"@">>)
IsResponsive(b) == b.selectors # <<>> /\ startsWith(b.selectors[1], MEDIA_SCREEN)
IsColorScheme(b) ==
  /\ b.selectors # <<>>
  /\ ~IsResponsive(b)
  /\ startsWith(b.selectors[1], MEDIA)
  /\ includes(b.selectors[1], COLOR_SCHEME)
IsOtherAtRule(b) == IsAtRuleBlock(b) /\ ~IsResponsive(b) /\ ~IsColorScheme(b)

\* the call of renderBlock, and of renderBlockContent, on block id
CallsOf(id) == {i \in 1..Len(rstate.calls) : rstate.calls[i].block = id}
VisitsOf(id) == {i \in 1..Len(rstate.visits) : rstate.visits[i].block = id}

FragmentsOf(context) ==
  IF HasContext(rstate.output, context)
  THEN (CHOOSE i \in 1..Len(rstate.output) : rstate.output[i].context = context)
  ELSE 0

\* s with every "&" replaced by the text p
RECURSIVE WithParent(_, _)
WithParent(s, p) ==
  IF s = <<>> THEN <<>>
  ELSE (IF Head(s) = "&" THEN p ELSE <<Head(s)>>) \o WithParent(Tail(s), p)

\* for each s of S in order and each p of P in order: s with "&" replaced by p, or p s
Rule4(S, P) ==
  IF P = <<>> THEN S
  ELSE flatten([i \in 1..Len(S) |->
                  [j \in 1..Len(P) |->
                     IF "&" \in Range(S[i]) THEN WithParent(S[i], P[j])
                     ELSE P[j] \o <<" ">> \o S[i]]])

\* C1 for the block of visit v: its selector list is Rule4 of its own selectors and
\* the parents it was called with; the list is in its fragment, in the context it
\* was called in, and is the parent list of every call on a child
Rule4At(v) ==
  LET b == blocks[v.block]
      c == rstate.calls[CHOOSE i \in CallsOf(v.block) : TRUE]
      list == Rule4(b.selectors, c.parents)
  IN /\ v.selectors = list
     /\ v.context = c.context
     /\ b.properties # <<>> =>
          \E k \in 1..Len(rstate.output) :
            /\ rstate.output[k].context = c.context
            /\ \E f \in 1..Len(rstate.output[k].blocks) :
                 rstate.output[k].blocks[f] =
                   join(list, <<",">>) \o <<"{">> \o renderProperties(b.properties) \o <<"}">>
     /\ \A k \in 1..Len(b.children) :
          \A i \in CallsOf(b.children[k]) : rstate.calls[i].parents = list

CssHover == <<".","a",":","h","o","v","e","r","{","c","o","l","o","r",":","r","e","d","}">>
CssDescendant == <<".","a"," ",".","b","{","c","o","l","o","r",":","r","e","d","}">>

\* C1: render rule 4. Every ordinary block is rendered with the selector list that
\* combines each of its selectors, in order, with each inherited parent selector, in
\* order ("&" replaced by the parent, or "<parent> <selector>"), its own selectors
\* when there is no parent; the list is joined by "," in its fragment and handed to
\* its children; `.a{&:hover{color:red;}}` gives `.a:hover{color:red}` and
\* `.a{.b{color:red;}}` gives `.a .b{color:red}`.
C1_RenderRule4 ==
  /\ Rendered =>
       \A i \in 1..Len(rstate.visits) :
         IsOrdinary(blocks[rstate.visits[i].block]) => Rule4At(rstate.visits[i])
  /\ (Finished /\ Untransformed /\ source = SrcHover) =>
       (pc = "done" /\ css = CssHover)
  /\ (Finished /\ Untransformed /\ source = SrcDescendant) =>
       (pc = "done" /\ css = CssDescendant)

\* the blocks of the tree above block id
ParentOf(id) ==
  IF \E p \in 1..Len(blocks) : id \in Range(blocks[p].children)
  THEN CHOOSE p \in 1..Len(blocks) : id \in Range(blocks[p].children)
  ELSE 0

RECURSIVE AncestorsOf(_)
AncestorsOf(id) ==
  IF ParentOf(id) = 0 THEN {} ELSE {ParentOf(id)} \cup AncestorsOf(ParentOf(id))

\* the three cases in which renderBlock is to reject the block of call c
Rejected(c) ==
  LET b == blocks[c.block]
  IN \/ IsResponsive(b) /\ (includes(c.context, SCREEN) \/ includes(c.context, COLOR_SCHEME))
     \/ IsColorScheme(b) /\ includes(c.context, COLOR_SCHEME)
     \/ IsOtherAtRule(b) /\ startsWith(c.context, <<"@">>)

NoIllegalNesting ==
  \A x \in 1..Len(blocks) : \A y \in AncestorsOf(x) :
    /\ IsResponsive(blocks[x]) => ~IsResponsive(blocks[y]) /\ ~IsColorScheme(blocks[y])
    /\ IsColorScheme(blocks[x]) => ~IsColorScheme(blocks[y])
    /\ IsOtherAtRule(blocks[x]) => ~IsAtRuleBlock(blocks[y])

\* C2: render fails with a RenderingError, and returns nothing, when a responsive
\* block is visited in a context that indicates a screen media query or a color
\* scheme at-rule, a color scheme block in a color scheme context, or another at-rule
\* in an at-rule context; hence when render succeeds no responsive block has a
\* responsive or color scheme ancestor, no color scheme block has a color scheme
\* ancestor and no other at-rule block has an at-rule ancestor.
C2_NestingRejected ==
  /\ Rendered =>
       \A i \in 1..Len(rstate.calls) :
         Rejected(rstate.calls[i]) =>
           (pc = "error" /\ error.name = "RenderingError" /\ css = <<>>)
  /\ (Rendered /\ pc = "done") => NoIllegalNesting

\* the first parenthesised group of a prelude: from its first "(" to the next ")"
HasGroup(prelude) ==
  IndexOf(prelude, "(", 1) # 0 /\ IndexOf(prelude, ")", IndexOf(prelude, "(", 1) + 1) # 0

FirstGroup(prelude) ==
  SubSeq(prelude, IndexOf(prelude, "(", 1),
         IndexOf(prelude, ")", IndexOf(prelude, "(", 1) + 1))

\* C3: a color scheme block visited in a responsive context C is rendered into the
\* context C + "and" + G, G the first parenthesised group of its prelude, whatever
\* the number of groups of the prelude; visited in any other context it is rendered
\* into the context named by its prelude; the parent selectors pass through.
C3_ColorSchemeContext ==
  Rendered =>
    \A i \in 1..Len(rstate.visits) :
      LET v == rstate.visits[i]
          prelude == blocks[v.block].selectors[1]
          c == rstate.calls[CHOOSE k \in CallsOf(v.block) : TRUE]
      IN (IsColorScheme(blocks[v.block]) /\ HasGroup(prelude)) =>
           /\ v.context = IF startsWith(c.context, MEDIA_SCREEN)
                          THEN c.context \o AND \o FirstGroup(prelude)
                          ELSE prelude
           /\ v.selectors = c.parents

CssColorSchemeMerge ==
  <<"@","m","e","d","i","a"," ","s","c","r","e","e","n"," ","(","m","i","n","-","w","i","d","t","h",":","6","0","0","p","x",")","a","n","d","(","p","r","e","f","e","r","s","-","c","o","l","o","r","-","s","c","h","e","m","e",":","d","a","r","k",")","{",".","a","{","c","o","l","o","r",":","#","0","0","0","}","}">>

\* C4: parsing and rendering the color scheme merge text succeeds, and the output is
\* the one merged context wrapped around the fragment `.a{color:#000}`: no context
\* of the color scheme block alone, no root fragment.
C4_ColorSchemeMerge ==
  (Finished /\ Untransformed /\ source = SrcColorSchemeMerge) =>
    /\ pc = "done"
    /\ css = CssColorSchemeMerge
    /\ Cardinality({i \in 1..Len(rstate.output) : rstate.output[i].blocks # <<>>}) = 1

\* the blocks below the given ones, each before its children, in order
RECURSIVE PreOrder(_)
PreOrder(ids) ==
  IF ids = <<>> THEN <<>>
  ELSE <<Head(ids)>> \o PreOrder(blocks[Head(ids)].children) \o PreOrder(Tail(ids))

\* the contexts of the visits, each once, in the order in which they were entered
RECURSIVE FirstEntered(_, _)
FirstEntered(visits, seen) ==
  IF visits = <<>> THEN <<>>
  ELSE IF Head(visits).context \in seen THEN FirstEntered(Tail(visits), seen)
  ELSE <<Head(visits).context>>
         \o FirstEntered(Tail(visits), seen \cup {Head(visits).context})

\* the fragments of the blocks with a property among the visits of one context,
\* in the order of the visits
RECURSIVE FragmentsIn(_, _)
FragmentsIn(visits, context) ==
  IF visits = <<>> THEN <<>>
  ELSE (IF Head(visits).context = context /\ blocks[Head(visits).block].properties # <<>>
        THEN join(Head(visits).selectors, <<",">>) \o <<"{">>
               \o renderProperties(blocks[Head(visits).block].properties) \o <<"}">>
        ELSE <<>>)
       \o FragmentsIn(Tail(visits), context)

RECURSIVE Assembled(_, _)
Assembled(visits, contexts) ==
  IF contexts = <<>> THEN <<>>
  ELSE LET fragments == FragmentsIn(visits, Head(contexts))
       IN (IF fragments = <<>> THEN <<>>
           ELSE IF Head(contexts) = ROOT THEN fragments
           ELSE Head(contexts) \o <<"{">> \o fragments \o <<"}">>)
          \o Assembled(visits, Tail(contexts))

\* C5: when render succeeds every block was visited, in pre-order, whether or not
\* its parent has properties, and the output is, over the contexts in the order in
\* which they were first entered, the fragments of root as they are, every other
\* context with a fragment as `<context>{<fragments>}`, nothing for a context
\* without one; a block emits a fragment iff it has a property, and the fragments
\* of a context are in the order of the visits.
C5_FinalAssembly ==
  (Rendered /\ pc = "done") =>
    /\ [i \in 1..Len(rstate.visits) |-> rstate.visits[i].block] = PreOrder(tree)
    /\ css = Assembled(rstate.visits, FirstEntered(rstate.visits, {}))

\* a block without properties whose child emits into a wrapped context, a context
\* left without a fragment, and a fragment of root, rendered together
C5_Witness ==
  /\ Rendered /\ pc = "done"
  /\ \E i \in 1..Len(rstate.output) : rstate.output[i].blocks = <<>>
  /\ \E i \in 1..Len(rstate.output) :
       rstate.output[i].context = ROOT /\ rstate.output[i].blocks # <<>>
  /\ \E i \in 1..Len(rstate.output) :
       rstate.output[i].context # ROOT /\ rstate.output[i].blocks # <<>>
  /\ \E p \in 1..Len(blocks) :
       /\ blocks[p].properties = <<>>
       /\ \E k \in 1..Len(blocks[p].children) : blocks[blocks[p].children[k]].properties # <<>>

-----------------------------------------------------------------------------
(* The parser *)

\* the value of a custom property is being read
InCustomValue ==
  /\ pc = "parse"
  /\ state.isCustomProperty
  /\ startsWith(state.currentPropertyName, <<"!">>)

\* the fields of the parser state other than the buffer and the position counters
Modes(st) ==
  <<st.currentPropertyName, st.isCustomProperty, st.isStringLiteral, st.isAtRule,
    st.isNestedSelector, st.currentParenthesisLevel, st.selectorStack, st.stack, st.tree>>

OnlyAppends(c) ==
  /\ pc' = "parse"
  /\ state'.buffer = Append(state.buffer, c)
  /\ Modes(state') = Modes(state)
  /\ blocks' = blocks

CustomValueStep ==
  /\ (InCustomValue /\ HandleColon) => OnlyAppends(":")
  /\ (InCustomValue /\ HandleComma) => OnlyAppends(",")
  /\ (InCustomValue /\ HandleAmpersand) => OnlyAppends("&")
  /\ (InCustomValue /\ HandleAtSign) => OnlyAppends("@")
  /\ (InCustomValue /\ HandleDoubleQuote) => OnlyAppends("\"")
  /\ (InCustomValue /\ HandleOpeningParenthesis) => OnlyAppends("(")
  /\ (InCustomValue /\ HandleClosingParenthesis) => OnlyAppends(")")
  /\ (InCustomValue /\ trim(state.buffer) # <<>> /\ HandleSemicolon) =>
       /\ pc' = "parse"
       /\ \E b \in 1..Len(blocks) :
            /\ blocks'[b].properties =
                 Append(blocks[b].properties,
                        [key |-> state.currentPropertyName, value |-> trim(state.buffer)])
            /\ \A o \in 1..Len(blocks) : o # b => blocks'[o] = blocks[o]

\* C6: in the value of a declaration whose name starts with "!", each of : , & @ " ( )
\* is only appended to the buffer, no mode of the parser changes, and the ";" appends
\* one property with the "!" name as key and the trimmed text since the colon as
\* value; `.a{!x: a:b;}` gives the key `!x` with the value `a:b`.
C6_CustomPropertyVerbatim ==
  /\ [][CustomValueStep]_vars
  /\ [](( Finished /\ Untransformed /\ source = SrcCustomProperty) =>
          /\ pc = "done"
          /\ blocks[1].properties =
               <<[key |-> <<"!","x">>, value |-> <<"a",":","b">>]>>)

\* C7: currentParenthesisLevel is an integer >= 0 in every state of the parser
C7_ParenthesisLevelNonNegative ==
  state.currentParenthesisLevel \in Nat

\* the selector list a "{" closes
OpenedSelectors == state.selectorStack \o <<trim(state.buffer)>>

BraceFails ==
  \/ trim(state.buffer) = <<>>
  \/ /\ Len(OpenedSelectors) > 1
     /\ \E i \in 1..Len(OpenedSelectors) : startsWith(OpenedSelectors[i], <<"@">>)

BraceStep ==
  HandleOpeningBrace =>
    IF BraceFails
    THEN /\ pc' = "error"
         /\ error'.name = "ParsingError"
         /\ blocks' = blocks
         /\ state'.tree = state.tree
         /\ state'.stack = state.stack
         /\ state'.selectorStack = state.selectorStack
    ELSE /\ pc' = "parse"
         /\ Len(blocks') = Len(blocks) + 1
         /\ blocks'[Len(blocks')].selectors = OpenedSelectors
         /\ \A o \in 1..Len(blocks) : blocks'[o].selectors = blocks[o].selectors

SelectorsWellFormed(b) ==
  /\ Len(b.selectors) >= 1
  /\ \A i \in 1..Len(b.selectors) :
       b.selectors[i] # <<>> /\ trim(b.selectors[i]) = b.selectors[i]
  /\ Len(b.selectors) > 1 =>
       \A i \in 1..Len(b.selectors) : ~startsWith(b.selectors[i], <<"@">>)

\* C8: a "{" either fails with a ParsingError that leaves the tree, the stack and
\* the selector stack as they are (the trimmed buffer is empty, or the selector list
\* has more than one entry and one starts with "@"), or creates exactly one block
\* whose selectors are the selector stack followed by the trimmed buffer; so every
\* block the parser builds has a selector, every selector is non-empty and trimmed,
\* and no block with more than one selector has one starting with "@".
C8_BlockOpenContract ==
  /\ [][BraceStep]_vars
  /\ [](pc \in {"parse", "error"} =>
          \A b \in 1..Len(blocks) : SelectorsWellFormed(blocks[b]))

\* a block with two selectors has been opened, and a later "{" has failed
C8_Witness ==
  /\ pc = "error"
  /\ error.message \in {"Unexpected opening brace", "At-rule mixed with other selectors"}
  /\ \E b \in 1..Len(blocks) : Len(blocks[b].selectors) > 1

ClosingBraceStep ==
  (HandleClosingBrace /\ (state.stack = <<>> \/ state.currentPropertyName # <<>>)) =>
    /\ pc' = "error"
    /\ error'.name = "ParsingError"
    /\ error'.message = "Unexpected closing brace"
    /\ state'.stack = state.stack
    /\ blocks' = blocks

InString == pc = "parse" /\ state.isStringLiteral /\ ~state.isCustomProperty

StringStep ==
  /\ (InString /\ HandleSemicolon) => OnlyAppends(";")
  /\ (InString /\ HandleColon) => OnlyAppends(":")
  /\ (InString /\ HandleComma) => OnlyAppends(",")
  /\ (InString /\ HandleAmpersand) =>
       /\ state'.buffer = Append(state.buffer, "&")
       /\ state'.isNestedSelector = state.isNestedSelector
  /\ (InString /\ HandleOpeningParenthesis) =>
       /\ state'.buffer = Append(state.buffer, "(")
       /\ state'.currentParenthesisLevel = state.currentParenthesisLevel
  /\ (InString /\ HandleClosingParenthesis) =>
       /\ state'.buffer = Append(state.buffer, ")")
       /\ state'.currentParenthesisLevel = state.currentParenthesisLevel
  /\ (InString /\ HandleDoubleQuote) =>
       /\ state'.buffer = Append(state.buffer, "\"")
       /\ state'.isStringLiteral =
            (state.buffer # <<>> /\ state.buffer[Len(state.buffer)] = "\\")

\* C11: in a string literal (outside a custom property) ";", ":" and "," are only
\* appended to the buffer, "&" does not set isNestedSelector, "(" and ")" leave
\* currentParenthesisLevel as it is, and a double quote ends the literal iff the
\* character before it in the buffer is not a backslash; `.a{content:"a\"b";}`
\* parses as one property whose value is the literal as written.
C11_StringLiteralMode ==
  /\ [][StringStep]_vars
  /\ []((source = SrcEscapedQuote /\ input = <<>> /\ free = MaxFree) =>
          /\ pc \in {"parse", "transform"}
          /\ Len(blocks) = 1
          /\ state.stack = <<>>
          /\ blocks[1].properties =
               <<[key |-> <<"c","o","n","t","e","n","t">>,
                  value |-> <<"\"","a","\\","\"","b","\"">>]>>)

\* the literal is still open after a ";" and an escaped double quote
C11_Witness ==
  /\ InString
  /\ includes(state.buffer, <<";">>)
  /\ Len(state.buffer) >= 2
  /\ SubSeq(state.buffer, Len(state.buffer) - 1, Len(state.buffer)) = <<"\\", "\"">>

-----------------------------------------------------------------------------
(* The transformer *)

\* the calls of the handlers a whole walk makes: on each block in pre-order, each
\* plugin in the order given
RECURSIVE ExpectedCalls(_)
ExpectedCalls(order) ==
  IF order = <<>> THEN <<>>
  ELSE [h \in 1..Len(transformPlugins) |-> [block |-> Head(order), plugin |-> h]]
         \o ExpectedCalls(Tail(order))

InvokedCalls ==
  [i \in 1..Len(walk.invoked) |->
     [block |-> walk.invoked[i].block, plugin |-> walk.invoked[i].plugin]]

InOrder ==
  /\ Len(InvokedCalls) <= Len(ExpectedCalls(PreOrder(tree)))
  /\ InvokedCalls = SubSeq(ExpectedCalls(PreOrder(tree)), 1, Len(InvokedCalls))
  /\ \A i, j \in 1..Len(walk.invoked) :
       (walk.invoked[i].view = walk.invoked[j].view)
         <=> (walk.invoked[i].block = walk.invoked[j].block)
  /\ pc \in {"render", "done"} => InvokedCalls = ExpectedCalls(PreOrder(tree))
  /\ (pc = "error" /\ error.name \in {"RenderingError", "TypeError"}) =>
       InvokedCalls = ExpectedCalls(PreOrder(tree))

\* C13: the handlers are called on the blocks in pre-order, on each block every
\* handler once, in the order given, all on the one view of the block, so that
\* none is called on a block before all have returned on its ancestors and on the
\* blocks before it; once a handler has failed none is called again.
C13_TransformOrder ==
  /\ [](pc # "parse" /\ ~(pc = "error" /\ error.name = "ParsingError") => InOrder)
  /\ [][error.name = "Error" => walk'.invoked = walk.invoked]_vars
  /\ [][(pc = "transform" /\ error'.name = "Error") =>
          /\ Len(walk'.invoked) = Len(walk.invoked) + 1
          /\ pc' = "error"]_vars

\* the walk of `a{b{}c{}}d{}` has ended: two children of a first block, then a sibling
C13_Witness ==
  /\ source = SrcFamily
  /\ pc = "render"
  /\ Len(walk.invoked) = 4 * NumPlugins
  /\ walk.invoked[Len(walk.invoked)].block = 4

\* the block the failed handler was called on
FailedBlock == walk.invoked[Len(walk.invoked)].block

\* C14: when a handler fails with a message on a block, at any depth, the
\* transformation fails with the error wrapped once: it carries the message as it
\* was, and the start line of that block and of no other.
C14_ErrorWrappedOnce ==
  (pc = "error" /\ error.name = "Error") =>
    /\ error.message = "handler failed"
    /\ error.lines = <<blocks[FailedBlock].metadata.start.line>>

-----------------------------------------------------------------------------
(* The pipeline *)

\* the positions of the plugins of a stage in the list the pipeline was made with
Positions(stage) ==
  SelectSeq([i \in 1..Len(plugins) |-> i], LAMBDA i : plugins[i].stage = stage)

StepsOf(stage) ==
  [k \in 1..Len(Positions(stage)) |-> <<stage, Positions(stage)[k]>>]

RECURSIVE Repeated(_, _)
Repeated(steps, n) == IF n = 0 THEN <<>> ELSE steps \o Repeated(steps, n - 1)

\* what a whole run of the pipeline calls and passes, in order
ExpectedSteps ==
  StepsOf("input") \o << <<"parse", 0>> >>
    \o Repeated(StepsOf("transform"), Len(PreOrder(tree)))
    \o << <<"render", 0>> >> \o StepsOf("output")

Steps == [i \in 1..Len(trace) |-> <<trace[i].stage, trace[i].plugin>>]

PipelineOrder ==
  /\ Len(Steps) <= Len(ExpectedSteps)
  /\ Steps = SubSeq(ExpectedSteps, 1, Len(Steps))
  /\ pc = "done" => Steps = ExpectedSteps
  /\ pc = "parse" => Steps = StepsOf("input")
  /\ pc = "transform" => EventsOf(trace, "parse") # {} /\ EventsOf(trace, "render") = {}
  /\ \A i \in 1..Len(trace) :
       /\ (i > 1 /\ trace[i].stage \in {"input", "output"}
             /\ trace[i - 1].stage = trace[i].stage) =>
            trace[i].arg = trace[i - 1].result
       /\ (trace[i].stage = "input" /\ trace[i].string
             /\ (i = Len(trace) \/ trace[i + 1].stage # "input")) =>
            source = trace[i].result
       /\ (i > 1 /\ trace[i].stage = "output" /\ trace[i - 1].stage = "render") =>
            trace[i].arg = renderTreeToString(blocks, tree).css
       /\ trace[i].stage = "output" => trace[i].tree = tree
       /\ ~trace[i].string =>
            /\ i = Len(trace)
            /\ pc = "error"
            /\ error.name = "Error"
            /\ trace[i].stage = "input" =>
                 (state = InitialState /\ blocks = <<>> /\ rstate = NoRenderState)
  /\ (pc = "done" /\ trace[Len(trace)].stage = "output") =>
       css = trace[Len(trace)].result

\* C15: a run of the pipeline calls the handlers of the input plugins first, each
\* with the result of the one before, in their order in the list of plugins; then
\* it parses, transforms with the handlers of the transform plugins in their order,
\* renders, and calls the handlers of the output plugins in their order, each with
\* the output of the one before and the tree. A handler of an input or an output
\* plugin that returns no string ends the run with an error: nothing runs after
\* it, nothing is returned.
C15_StageOrder ==
  /\ []PipelineOrder
  /\ [][pc \notin {"error", "done"}]_vars

\* a run has ended for the plugins (output, transform, input), listed last stage first
C15_Witness ==
  /\ pc = "done"
  /\ Len(plugins) = 3
  /\ plugins[1].stage = "output"
  /\ plugins[2].stage = "transform"
  /\ plugins[3].stage = "input"
  /\ Len(trace) > 4

-----------------------------------------------------------------------------
(* Flat style sheets *)

\* the pieces of s between the occurrences of the character c
RECURSIVE Split(_, _)
Split(s, c) ==
  IF c \notin Range(s) THEN <<s>>
  ELSE <<SubSeq(s, 1, IndexOf(s, c, 1) - 1)>>
         \o Split(SubSeq(s, IndexOf(s, c, 1) + 1, Len(s)), c)

AllButLast(pieces) == SubSeq(pieces, 1, Len(pieces) - 1)
Before(s, c) == SubSeq(s, 1, IndexOf(s, c, 1) - 1)
After(s, c) == SubSeq(s, IndexOf(s, c, 1) + 1, Len(s))

\* the rules of a text read as `selectors{declarations}` one after the other
FlatRules(text) == AllButLast(Split(text, "}"))
FlatSelectors(rule) ==
  LET list == Split(Before(rule, "{"), ",")
  IN [i \in 1..Len(list) |-> trim(list[i])]
FlatDeclarations(rule) ==
  LET list == AllButLast(Split(After(rule, "{"), ";"))
  IN [i \in 1..Len(list) |->
        [key |-> trim(Before(list[i], ":")), value |-> trim(After(list[i], ":"))]]

\* text is a sequence of rules s1,..,sn{k1:v1;..;km:vm;} without "&" and without a
\* block in a block
IsFlat(text) ==
  /\ "&" \notin Range(text)
  /\ trim(Split(text, "}")[Len(Split(text, "}"))]) = <<>>
  /\ \A r \in 1..Len(FlatRules(text)) :
       LET rule == FlatRules(text)[r]
           body == Split(After(rule, "{"), ";")
       IN /\ Len(Split(rule, "{")) = 2
          /\ \A i \in 1..Len(FlatSelectors(rule)) : FlatSelectors(rule)[i] # <<>>
          /\ trim(body[Len(body)]) = <<>>
          /\ \A i \in 1..(Len(body) - 1) :
               /\ ":" \in Range(body[i])
               /\ trim(Before(body[i], ":")) # <<>>
               /\ trim(After(body[i], ":")) # <<>>

\* the rules with a declaration, each as `s1,..,sn{k1:v1;..;km:vm}`
FlatCss(text) ==
  flatten([r \in 1..Len(FlatRules(text)) |->
             LET rule == FlatRules(text)[r]
             IN IF FlatDeclarations(rule) = <<>> THEN <<>>
                ELSE join(FlatSelectors(rule), <<",">>) \o <<"{">>
                       \o renderProperties(FlatDeclarations(rule)) \o <<"}">>])

\* C16: for a text that is a sequence of flat rules s1,..,sn{k1:v1;..;km:vm;} (no
\* block in a block, no "&"), parsing and rendering succeed and the output is, in
\* the order of the text, every rule with a declaration, with its selectors and its
\* declarations in order, trimmed, and nothing else.
C16_FlatRoundTrip ==
  (Finished /\ Untransformed /\ IsFlat(source)) => (pc = "done" /\ css = FlatCss(source))

-----------------------------------------------------------------------------
(* The stack of open blocks *)

Last(s) == s[Len(s)]

\* how often block id occurs in the forest: as a root, as a child
Occurrences(id) ==
  Cardinality({i \in 1..Len(state.tree) : state.tree[i] = id})
    + Cardinality({<<p, k>> \in (1..Len(blocks)) \X (1..Len(blocks)) :
                     k <= Len(blocks[p].children) /\ blocks[p].children[k] = id})

IsClosed(b) == b.metadata.end # <<>>

StackIsOpenChain ==
  /\ state.stack # <<>> => (state.tree # <<>> /\ state.stack[1] = Last(state.tree))
  /\ \A i \in 1..(Len(state.stack) - 1) :
       /\ blocks[state.stack[i]].children # <<>>
       /\ state.stack[i + 1] = Last(blocks[state.stack[i]].children)
  /\ Len(state.stack) =
       Len(blocks) - Cardinality({b \in 1..Len(blocks) : IsClosed(blocks[b])})
  /\ \A b \in 1..Len(blocks) :
       /\ Occurrences(b) = 1
       /\ IsClosed(blocks[b]) <=> b \notin Range(state.stack)

ChildrenUnchangedBut(p) ==
  \A o \in 1..Len(blocks) : o # p => blocks'[o].children = blocks[o].children

StackStep ==
  /\ (HandleOpeningBrace /\ pc' = "parse") =>
       /\ Len(blocks') = Len(blocks) + 1
       /\ state'.stack = Append(state.stack, Len(blocks'))
       /\ blocks'[Len(blocks')].children = <<>>
       /\ IF state.stack = <<>>
          THEN /\ state'.tree = Append(state.tree, Len(blocks'))
               /\ ChildrenUnchangedBut(0)
          ELSE /\ state'.tree = state.tree
               /\ blocks'[Last(state.stack)].children =
                    Append(blocks[Last(state.stack)].children, Len(blocks'))
               /\ ChildrenUnchangedBut(Last(state.stack))
  /\ (HandleClosingBrace /\ pc' = "parse") =>
       /\ state.stack # <<>>
       /\ state'.stack = AllButLast(state.stack)
       /\ state'.tree = state.tree
       /\ Len(blocks') = Len(blocks)
       /\ ChildrenUnchangedBut(0)
       /\ \A b \in 1..Len(blocks) :
            IsClosed(blocks'[b]) <=> (IsClosed(blocks[b]) \/ b = Last(state.stack))

\* C17: after any sequence of calls of the delimiter handlers the stack is the
\* chain of the open blocks: its first entry is the last root block of the tree,
\* each further entry is the last child of the one before, and its depth is the
\* number of "{" that succeeded less the number of "}" that succeeded. A "{" that
\* succeeds appends the new block in one place, after its earlier siblings (the
\* children of the top of the stack, or the roots when the stack is empty); a "}"
\* that succeeds pops the innermost block only; so every block occurs once in the
\* forest and the blocks are closed last opened first.
C17_StackInvariant ==
  /\ []StackIsOpenChain
  /\ [][StackStep]_vars

\* a second child has been opened after a closed first one: the stack holds the
\* parent and the second child
C17_Witness ==
  /\ Len(state.stack) = 2
  /\ Len(blocks[state.stack[1]].children) = 2
  /\ state.stack[2] = blocks[state.stack[1]].children[2]
  /\ IsClosed(blocks[blocks[state.stack[1]].children[1]])

-----------------------------------------------------------------------------
(* At-rule mode *)

\* the prelude of an at-rule is being read: an "@" met since the last "{", "}" or ";"
InPrelude ==
  \/ "@" \in Range(state.buffer)
  \/ \E i \in 1..Len(state.selectorStack) : "@" \in Range(state.selectorStack[i])

\* a ":" where a declaration may have its key ended
ColonEndsKey ==
  /\ pc = "parse"
  /\ state.stack # <<>>
  /\ state.currentPropertyName = <<>>
  /\ ~state.isStringLiteral
  /\ ~state.isNestedSelector
  /\ ~InPrelude

AtRuleStep ==
  (ColonEndsKey /\ HandleColon) =>
    /\ state'.currentPropertyName = trim(state.buffer)
    /\ state'.buffer = <<>>

\* C18: isAtRule keeps a ":" from ending a key only between an "@" and the "{" that
\* opens the block of that at-rule. After that "{" (and after the ";" of a
\* declaration whose value held an "@") a ":" met in an open block, with no key
\* pending, outside a string literal and outside a nested selector, sets
\* currentPropertyName; `@media screen{.a{color:red;}}` parses to a block `.a` with
\* the property (color, red).
C18_AtRuleConfined ==
  /\ [][AtRuleStep]_vars
  /\ []((Finished /\ Untransformed /\ source = SrcMediaScreen) =>
          /\ error.name # "ParsingError"
          /\ Len(blocks) = 2
          /\ blocks[2].selectors = << <<".", "a">> >>
          /\ blocks[2].properties =
               <<[key |-> <<"c","o","l","o","r">>, value |-> <<"r","e","d">>]>>)

-----------------------------------------------------------------------------
(* The fragments *)

\* C19: when render succeeds on a tree the parser has built, every fragment pushed
\* into a context is `<selectors>{<properties>}` with a selector list that is not
\* empty, and none starts with "{"; so too for an at-rule block that has
\* declarations of its own.
C19_FragmentHasSelector ==
  (Rendered /\ pc = "done" /\ Untransformed) =>
    /\ \A i \in 1..Len(rstate.visits) :
         blocks[rstate.visits[i].block].properties # <<>> =>
           (rstate.visits[i].selectors # <<>>
              /\ \A k \in 1..Len(rstate.visits[i].selectors) :
                   rstate.visits[i].selectors[k] # <<>>)
    /\ \A g \in 1..Len(rstate.output) :
         \A f \in 1..Len(rstate.output[g].blocks) :
           rstate.output[g].blocks[f] # <<>> /\ Head(rstate.output[g].blocks[f]) # "{"

\* the context is the prelude of the at-rule block a, or one merged from it: the
\* prelude followed by "and" and a condition, or a context with "and" and the
\* condition (or the whole) of the prelude in it
BuiltFrom(context, a) ==
  LET prelude == a.selectors[1]
  IN \/ context = prelude
     \/ startsWith(context, prelude \o AND)
     \/ /\ IsColorScheme(a)
        /\ \/ includes(context, AND \o prelude)
           \/ HasGroup(prelude) /\ includes(context, AND \o FirstGroup(prelude))

\* C20: when render succeeds, the fragment of a block is emitted into a context
\* that is, for each at-rule block above it, the prelude of that block or a context
\* merged from it: never into root, never into a context that leaves out one of
\* the at-rules around the block.
C20_NoEscape ==
  (Rendered /\ pc = "done") =>
    \A i \in 1..Len(rstate.visits) :
      LET v == rstate.visits[i]
      IN blocks[v.block].properties # <<>> =>
           \A a \in AncestorsOf(v.block) :
             IsAtRuleBlock(blocks[a]) => BuiltFrom(v.context, blocks[a])

-----------------------------------------------------------------------------
(* Parsing the output again *)

\* the parse of the rendered string, and the string rendered from that parse
Reparsed == createTreeFromString(css)
Rerendered == renderTreeToString(Reparsed.blocks, Reparsed.state.tree)

\* C21: for a text on which parse and render succeed, the parser accepts the
\* rendered string, and rendering the tree of that second parse gives the same
\* string again; so for `a{b:1;}`.
C21_RenderReparses ==
  (pc = "done" /\ Untransformed) =>
    /\ Reparsed.error = NoError
    /\ Rerendered.rstate.error = NoError
    /\ Rerendered.css = css

-----------------------------------------------------------------------------
(* The view *)

\* a handler has called operation op of the view in this step
Called(op) == pc = "transform" /\ ops' = ops + 1 /\ ret'.op = op

\* the positions of the entries with key k
Matches(P, k) == {i \in 1..Len(P) : P[i].key = k}
First(S) == CHOOSE i \in S : \A j \in S : i <= j

\* what getProperty(k) is to return on the properties P
Lookup(P, k) ==
  IF Matches(P, k) = {} THEN Undefined ELSE Value(P[First(Matches(P, k))].value)

\* P without its entries with key k
RECURSIVE Without(_, _)
Without(P, k) ==
  IF P = <<>> THEN <<>>
  ELSE (IF Head(P).key = k THEN <<>> ELSE <<Head(P)>>) \o Without(Tail(P), k)

\* the keys a handler may ask for, and the keys of the block
KeysOf(P) == Keys \cup {P[i].key : i \in 1..Len(P)}

ViewStep ==
  LET b == ret'.block
      k == ret'.args[1]
      P == blocks[b].properties
      Q == blocks'[b].properties
      Others == \A o \in 1..Len(blocks) : o # b => blocks'[o] = blocks[o]
      Frame == \A other \in KeysOf(P) \ {k} : Lookup(Q, other) = Lookup(P, other)
  IN
  /\ Called("getProperty") => (ret'.result = Lookup(P, k) /\ blocks' = blocks)
  /\ Called("hasProperty") => (ret'.result = (Matches(P, k) # {}) /\ blocks' = blocks)
  /\ Called("setProperty") =>
       /\ IF Matches(P, k) # {}
          THEN /\ Len(Q) = Len(P)
               /\ \A i \in 1..Len(P) :
                    Q[i] = IF i = First(Matches(P, k))
                           THEN [key |-> k, value |-> ret'.args[2]]
                           ELSE P[i]
          ELSE Q = Append(P, [key |-> k, value |-> ret'.args[2]])
       /\ Lookup(Q, k) = Value(ret'.args[2])
       /\ Frame
       /\ Others
  /\ Called("removeProperty") =>
       /\ Q = Without(P, k)
       /\ Lookup(Q, k) = Undefined
       /\ Frame
       /\ Others

\* C12: on the block of a view, getProperty(k) returns the value of the first entry
\* with key k, or nothing when there is none; hasProperty(k) tells whether there is
\* one; setProperty(k, v) changes the value of the first entry with key k, all
\* entries staying in place, or appends (k, v) when there is none;
\* removeProperty(k) removes every entry with key k and keeps the others in order;
\* neither changes what getProperty returns for another key.
C12_ViewProperties == [][ViewStep]_vars

\* removeProperty("b") has removed both entries of the repeated key of `a{b:1;c:2;b:3;}`
C12_Witness ==
  /\ source = SrcRepeatedKey
  /\ ops > 0
  /\ ret.op = "removeProperty"
  /\ ret.args = << <<"b">> >>
  /\ blocks[1].properties = <<[key |-> <<"c">>, value |-> <<"2">>]>>

\* C9: after parsing and any sequence of operations of the view, every block has a
\* selector and no block with more than one selector has one starting with "@", so
\* that the renderer's read of the first selector of a block is always defined.
C9_SelectorInvariantsSurvive ==
  /\ \A b \in 1..Len(blocks) :
       /\ Len(blocks[b].selectors) >= 1
       /\ Len(blocks[b].selectors) > 1 =>
            \A i \in 1..Len(blocks[b].selectors) :
              ~startsWith(blocks[b].selectors[i], <<"@">>)
  /\ error.name # "TypeError"

====
